---- MODULE Spec2Model ----
(***************************************************************************)
(* A model of load_balancer.py: the dispatch policies, the SocketMapper    *)
(* registry, the accept/read handlers and the selector loop of main().     *)
(*                                                                         *)
(* Sockets are numbered objects: LSock is the listening socket, and every  *)
(* socket object the program creates gets the next number.  The remote     *)
(* ends (clients, upstream servers) are the environment: they connect,     *)
(* write bytes, close, or reset.  A handler runs to completion in one      *)
(* step (the program is single threaded); the signal handler may run       *)
(* between any two steps.                                                   *)
(***************************************************************************)
EXTENDS Integers, Sequences, FiniteSets, TLC

\* ------------------------------------------------------------------ bounds
MaxConns == 1       \* client connections that arrive in one run
MaxWrites == 1      \* writes (of two bytes) the remote ends make in one run
MaxResets == 1      \* connections a remote end resets in one run
MaxCalls == 3       \* calls of each kind in the policy-only specification
MaxLrtCalls == 5    \* select_server() calls on the LeastResponseTime object
MaxTime == 3        \* the last value of the clock
MaxAdds == 4        \* add calls on the SocketMapper object

\* ------------------------------------------------------- program constants
RecvSize == 4096    \* conn.recv(4096)

ServerLists == {<<"S1", "S2">>}
PolicyServerLists == {<<"S1">>, <<"S1", "S2">>, <<"S2", "S1">>}
AllServers == {"S1", "S2"}
PolicyNames == {"N2One", "RoundRobin", "LeastConnections"}

LSock == 0                      \* the listening socket of main()
None == -1                      \* Python's None
MaxSocks == 2 * MaxConns
SockIds == 1..MaxSocks

VARIABLES
    servers,        \* the server list given to the policy
    policyName,     \* which class of POLICIES was instantiated
    index,          \* RoundRobin.index
    connections,    \* LeastConnections.connections
    done,           \* the global done flag
    pc,             \* where main() is: "while", "select", "for", "connect" (inside
                    \* upstream_sock.connect), "exited", "crashed"
    call,           \* the add() that is inside connect: <<client, upstream, server>>
    events,         \* the keys of the current batch still to be dispatched
    sel,            \* the selector: registered socket -> callback
    open,           \* sockets that are open (fileno() > 0)
    map,            \* SocketMapper.map, in insertion order: <<client, upstream>>
    nextSock,       \* number of the next socket object created
    backlog,        \* connections waiting on the listening socket
    inbuf,          \* bytes waiting to be received on each socket
    remote,         \* state of the remote end of each socket
    pairs,          \* history: every <<client, upstream, server>> add() completed
    readlog,        \* history: the non-empty chunks recv returned, per socket
    sendArgs,       \* history: the chunks passed to send, per socket
    delivered,      \* history: the bytes send accepted, per socket
    selections,     \* history: select_server() results, per server
    selLog,         \* history: the servers select_server() returned, in order
    updates,        \* history: policy.update(server) calls, per server
    teardowns,      \* history: pairs deleted after a zero-length read, per server
    arrived,        \* history: connections that arrived
    written,        \* history: writes made by remote ends
    resets,         \* history: resets by remote ends
    raised,         \* history: the call that raised out of a handler, and its socket
    response_times, \* LeastResponseTime.response_times: timestamps, avg, num_requests
    now,            \* what time.time() returns
    inflight,       \* history: per server, the start times of the requests in flight
    deltas,         \* history: per server, select-to-update time of each finished request
    measured,       \* history: per server, the delta each update computed
    alternating     \* history: per server, every select found no request in flight

vars == <<servers, policyName, index, connections, done, pc, call, events, sel, open,
          map, nextSock, backlog, inbuf, remote, pairs, readlog, sendArgs,
          delivered, selections, selLog, updates, teardowns, arrived, written,
          resets, raised, response_times, now, inflight, deltas, measured,
          alternating>>

policyVars == <<servers, policyName, index, connections>>
loopVars == <<done, pc, call, events>>
sockVars == <<sel, open, map, nextSock>>
envVars == <<backlog, inbuf, remote, arrived, written, resets>>
histVars == <<pairs, readlog, sendArgs, delivered, selections, selLog, updates, teardowns,
              raised>>
lrtVars == <<response_times, now, inflight, deltas, measured, alternating>>

\* ----------------------------------------------------------------- helpers
Min(a, b) == IF a < b THEN a ELSE b

RECURSIVE Flatten(_)
Flatten(chunks) ==
    IF chunks = <<>> THEN <<>> ELSE Head(chunks) \o Flatten(Tail(chunks))

Range(f) == {f[x] : x \in DOMAIN f}

\* ---------------------------------------------------------------- policies
\* N2One.select_server
N2One_select_server(srvs) == srvs[1]

\* select_server that forgets to advance the cursor
RoundRobin_select_server_stuck(srvs, idx) ==
    [server |-> srvs[idx + 1], index |-> idx]

\* RoundRobin.select_server: the server at the cursor, and the advanced cursor
RoundRobin_select_server(srvs, idx) ==
    [server |-> srvs[idx + 1], index |-> (idx + 1) % Len(srvs)]

\* min that keeps the last minimum it meets
RECURSIVE min_by_connections_last(_, _, _)
min_by_connections_last(srvs, conns, best) ==
    IF srvs = <<>> THEN best
    ELSE min_by_connections_last(Tail(srvs), conns,
            IF conns[Head(srvs)] <= conns[best] THEN Head(srvs) ELSE best)

\* min(self.servers, key=lambda s: self.connections[s]): the first minimum
RECURSIVE min_by_connections(_, _, _)
min_by_connections(srvs, conns, best) ==
    IF srvs = <<>> THEN best
    ELSE min_by_connections(Tail(srvs), conns,
            IF conns[Head(srvs)] < conns[best] THEN Head(srvs) ELSE best)

\* LeastConnections.select_server
LeastConnections_select_server(srvs, conns) ==
    LET min_conn == min_by_connections(Tail(srvs), conns, Head(srvs))
    IN [server |-> min_conn,
        connections |-> [conns EXCEPT ![min_conn] = conns[min_conn] + 1]]

\* LeastConnections.update
LeastConnections_update(conns, server) ==
    [conns EXCEPT ![server] = conns[server] - 1]

\* policy.select_server() of the configured policy: the server and the new state
select_server ==
    CASE policyName = "N2One" ->
            [server |-> N2One_select_server(servers),
             index |-> index, connections |-> connections]
      [] policyName = "RoundRobin" ->
            LET r == RoundRobin_select_server(servers, index)
            IN [server |-> r.server, index |-> r.index, connections |-> connections]
      [] policyName = "LeastConnections" ->
            LET r == LeastConnections_select_server(servers, connections)
            IN [server |-> r.server, index |-> index, connections |-> r.connections]

\* policy.update(server) of the configured policy: the new counters
\* (N2One.update and RoundRobin.update do nothing)
policy_update(server) ==
    IF policyName = "LeastConnections"
    THEN LeastConnections_update(connections, server)
    ELSE connections

\* a fraction <<numerator, denominator>> in lowest terms
RECURSIVE gcd(_, _)
gcd(a, b) == IF b = 0 THEN a ELSE gcd(b, a % b)

fraction(p, q) == <<p \div gcd(p, q), q \div gcd(p, q)>>

less(a, b) == a[1] * b[2] < b[1] * a[2]

\* min(self.response_times, key=avg): the first server with the least average
RECURSIVE min_by_avg(_, _, _)
min_by_avg(srvs, rt, best) ==
    IF srvs = <<>> THEN best
    ELSE min_by_avg(Tail(srvs), rt,
            IF less(rt[Head(srvs)].avg, rt[best].avg) THEN Head(srvs) ELSE best)

\* min(temp, key=len(timestamps)): the first server with the shortest window
RECURSIVE min_by_window(_, _, _)
min_by_window(temp, rt, best) ==
    IF temp = <<>> THEN best
    ELSE min_by_window(Tail(temp), rt,
            IF Len(rt[Head(temp)].timestamps) < Len(rt[best].timestamps)
            THEN Head(temp) ELSE best)

\* the servers whose average equals that of server, in dictionary order
same_avg(srvs, rt, server) ==
    SelectSeq(srvs, LAMBDA s : rt[s].avg = rt[server].avg)

\* LeastResponseTime.select_server at time t: the server and the new table
LeastResponseTime_select_server(srvs, rt, t) ==
    LET first == min_by_avg(Tail(srvs), rt, Head(srvs))
        temp == same_avg(srvs, rt, first)
        server == IF Len(temp) > 1 THEN min_by_window(Tail(temp), rt, Head(temp))
                  ELSE first
        ts == rt[server].timestamps
    IN [server |-> server,
        response_times |->
            [rt EXCEPT ![server].timestamps = Append([ts EXCEPT ![Len(ts)] = t], 0)]]

\* the delta LeastResponseTime.update computes at time t
update_delta(rt, server, t) == t - rt[server].timestamps[1]

\* LeastResponseTime.update at time t: the new table
LeastResponseTime_update(rt, server, t) ==
    LET info == rt[server]
        num_requests == info.num_requests
        delta == update_delta(rt, server, t)
    IN [rt EXCEPT ![server] =
            [timestamps |-> Tail(info.timestamps) \o <<0>>,
             avg |-> fraction(info.avg[1] * num_requests + delta * info.avg[2],
                              info.avg[2] * (num_requests + 1)),
             num_requests |-> num_requests + 1]]

\* ------------------------------------------------------------ SocketMapper
\* get_sock with the two returns exchanged: it answers the socket it was asked about
RECURSIVE get_sock_same(_, _)
get_sock_same(m, sock) ==
    IF m = <<>> THEN None
    ELSE IF Head(m)[2] = sock THEN Head(m)[2]
    ELSE IF Head(m)[1] = sock THEN Head(m)[1]
    ELSE get_sock_same(Tail(m), sock)

\* SocketMapper.get_sock: scan the map in order
RECURSIVE get_sock(_, _)
get_sock(m, sock) ==
    IF m = <<>> THEN None
    ELSE IF Head(m)[2] = sock THEN Head(m)[1]
    ELSE IF Head(m)[1] = sock THEN Head(m)[2]
    ELSE get_sock(Tail(m), sock)

\* pop that removes the oldest entry, whatever its key
map_pop_first(m, key) == Tail(m)

\* self.map.pop(key)
RECURSIVE map_pop(_, _)
map_pop(m, key) ==
    IF m = <<>> THEN <<>>
    ELSE IF Head(m)[1] = key THEN Tail(m)
    ELSE <<Head(m)>> \o map_pop(Tail(m), key)

map_keys(m) == {m[i][1] : i \in DOMAIN m}

\* sel.unregister(s)
unregister(s_sel, s) == [x \in (DOMAIN s_sel) \ {s} |-> s_sel[x]]

\* sel.register(s, EVENT_READ, data)
register(s_sel, s, data) == [x \in (DOMAIN s_sel) \cup {s} |-> IF x = s THEN data ELSE s_sel[x]]

\* delete without the two lines for paired_sock: the peer is left as it is
mapper_delete_one_side(s_sel, s_open, m, sock) ==
    LET paired_sock == get_sock(m, sock)
    IN IF sock \notin DOMAIN s_sel
       THEN [sel |-> s_sel, open |-> s_open, map |-> m, raised |-> TRUE]
       ELSE [sel |-> unregister(s_sel, sock),
             open |-> s_open \ {sock},
             map |-> IF sock \in map_keys(m) THEN map_pop(m, sock)
                     ELSE map_pop(m, paired_sock),
             raised |-> FALSE]

\* SocketMapper.delete: the selector, the open sockets and the map afterwards;
\* raised when one of its calls raises (the statements before it have run)
mapper_delete(s_sel, s_open, m, sock) ==
    LET paired_sock == get_sock(m, sock)
    IN IF sock \notin DOMAIN s_sel
       THEN [sel |-> s_sel, open |-> s_open, map |-> m, raised |-> TRUE]
       ELSE IF paired_sock \notin DOMAIN unregister(s_sel, sock)
       THEN [sel |-> unregister(s_sel, sock), open |-> s_open \ {sock},
             map |-> m, raised |-> TRUE]
       ELSE [sel |-> unregister(unregister(s_sel, sock), paired_sock),
             open |-> s_open \ {sock, paired_sock},
             map |-> IF sock \in map_keys(m) THEN map_pop(m, sock)
                     ELSE map_pop(m, paired_sock),
             raised |-> FALSE]

\* SocketMapper.add: connected says whether upstream_sock.connect succeeds.
\* When it raises, the client is already registered; the upstream socket object
\* is referenced by nothing and is never registered.
mapper_add(s_sel, s_open, m, client_sock, upstream_sock, connected) ==
    IF connected
    THEN [sel |-> register(register(s_sel, client_sock, "read"), upstream_sock, "read"),
          open |-> s_open \cup {client_sock, upstream_sock},
          map |-> Append(m, <<client_sock, upstream_sock>>),
          raised |-> FALSE]
    ELSE [sel |-> register(s_sel, client_sock, "read"),
          open |-> s_open \cup {client_sock},
          map |-> m,
          raised |-> TRUE]

\* fileno that keeps answering the descriptor after close
fileno_kept(s) == s + 3

\* fileobj.fileno(): -1 once the socket is closed
fileno(s) == IF s \in open THEN s + 3 ELSE -1

\* -------------------------------------------------------------------- Init
NoRaise == [in |-> "none", sock |-> None]

\* the state of the module when it is loaded, but for the selector, the server
\* list and the policy
Loaded ==
    /\ index = 0
    /\ connections = [s \in AllServers |-> 0]
    /\ done = FALSE
    /\ call = <<>>
    /\ events = {}
    /\ map = <<>>
    /\ nextSock = 1
    /\ backlog = 0
    /\ inbuf = [s \in SockIds |-> <<>>]
    /\ remote = [s \in SockIds |-> "open"]
    /\ pairs = {}
    /\ readlog = [s \in SockIds |-> <<>>]
    /\ sendArgs = [s \in SockIds |-> <<>>]
    /\ delivered = [s \in SockIds |-> <<>>]
    /\ selections = [s \in AllServers |-> 0]
    /\ selLog = <<>>
    /\ updates = [s \in AllServers |-> 0]
    /\ teardowns = [s \in AllServers |-> 0]
    /\ arrived = 0
    /\ written = 0
    /\ resets = 0
    /\ raised = NoRaise
    /\ response_times = [s \in Range(servers) |->
                            [timestamps |-> <<0>>, avg |-> <<0, 1>>, num_requests |-> 0]]
    /\ now = 1
    /\ inflight = [s \in AllServers |-> <<>>]
    /\ deltas = [s \in AllServers |-> <<>>]
    /\ measured = [s \in AllServers |-> <<>>]
    /\ alternating = [s \in AllServers |-> TRUE]

\* the state main() builds before its loop, but for the server list and the policy
Built ==
    /\ Loaded
    /\ sel = [x \in {LSock} |-> "accept"]
    /\ open = {LSock}

Fresh == policyName \in PolicyNames /\ Built

Constructed == servers \in ServerLists /\ Fresh

Init == Constructed /\ pc = "while"

running == pc \in {"while", "select", "for", "connect"}

\* The remote ends act while the loop is about to poll.  What a remote end does
\* while a batch is dispatched shows to the handlers no differently than had it
\* been done before the poll (more bytes in one recv, a reset seen by recv) or
\* before the next one, so their steps are taken there.
polling == pc = "select"

\* ------------------------------------------------------------- environment
\* a handler that also forgets every registered pair
Signal_clearing ==
    /\ running
    /\ ~done
    /\ done' = TRUE
    /\ map' = <<>>
    /\ UNCHANGED <<pc, call, events, policyVars, sel, open, nextSock, envVars, histVars>>
    /\ UNCHANGED lrtVars

\* graceful_shutdown: SIGINT is delivered.  The handler runs between two
\* bytecodes of whatever is executing and only sets done, which no callback
\* reads: inside a callback it has the effect it has right before or after it.
Signal ==
    /\ running
    /\ ~done
    /\ done' = TRUE
    /\ UNCHANGED <<pc, call, events, policyVars, sockVars, envVars, histVars>>
    /\ UNCHANGED lrtVars

\* a client connects to the listening address
ClientConnect ==
    /\ polling
    /\ arrived < MaxConns
    /\ backlog' = backlog + 1
    /\ arrived' = arrived + 1
    /\ UNCHANGED <<inbuf, remote, written, resets, policyVars, loopVars, sockVars, histVars>>
    /\ UNCHANGED lrtVars

\* the remote end of an open socket writes two bytes; the bytes written in a run
\* are numbered, so that each can be told from every other
PeerSend ==
    /\ polling
    /\ written < MaxWrites
    /\ \E s \in open \ {LSock} :
          /\ remote[s] = "open"
          /\ inbuf' = [inbuf EXCEPT ![s] = @ \o <<2 * written + 1, 2 * written + 2>>]
    /\ written' = written + 1
    /\ UNCHANGED <<backlog, remote, arrived, resets, policyVars, loopVars, sockVars, histVars>>
    /\ UNCHANGED lrtVars

\* the remote end of an open socket closes its side
PeerClose ==
    /\ polling
    /\ \E s \in open \ {LSock} :
          /\ remote[s] = "open"
          /\ remote' = [remote EXCEPT ![s] = "eof"]
    /\ UNCHANGED <<backlog, inbuf, arrived, written, resets, policyVars, loopVars, sockVars, histVars>>
    /\ UNCHANGED lrtVars

\* the remote end of an open socket resets the connection
PeerReset ==
    /\ polling
    /\ resets < MaxResets
    /\ \E s \in open \ {LSock} :
          /\ remote[s] = "open"
          /\ remote' = [remote EXCEPT ![s] = "reset"]
    /\ resets' = resets + 1
    /\ UNCHANGED <<backlog, inbuf, arrived, written, policyVars, loopVars, sockVars, histVars>>
    /\ UNCHANGED lrtVars

\* -------------------------------------------------------------------- main
\* a registered socket the selector reports readable
readable(s) ==
    IF s = LSock THEN backlog > 0
    ELSE inbuf[s] # <<>> \/ remote[s] # "open"

\* a loop that never looks at the flag
CheckFlag_ignored ==
    /\ pc = "while"
    /\ pc' = "select"
    /\ UNCHANGED <<done, call, events, policyVars, sockVars, envVars, histVars>>
    /\ UNCHANGED lrtVars

\* while not done:
CheckFlag ==
    /\ pc = "while"
    /\ pc' = IF done THEN "exited" ELSE "select"
    /\ UNCHANGED <<done, call, events, policyVars, sockVars, envVars, histVars>>
    /\ UNCHANGED lrtVars

\* events = sel.select(timeout=1): every registered socket that is readable, or
\* none after the timeout.  The order of the list is the selector's choice, so
\* the batch is kept as a set and the for loop takes its keys in any order.
Select ==
    /\ pc = "select"
    /\ events' = {<<s, sel[s]>> : s \in {x \in DOMAIN sel : readable(x)}}
    /\ pc' = IF events' = {} THEN "while" ELSE "for"
    /\ UNCHANGED <<done, call, policyVars, sockVars, envVars, histVars>>
    /\ UNCHANGED lrtVars

\* where the loop goes after a callback: out through the except clause when the
\* callback raised, else to the next key or back to the flag check
after(failed, rest) ==
    IF failed THEN "crashed" ELSE IF rest = {} THEN "while" ELSE "for"

\* the for loop reaches a key whose socket is closed: fileno() is not > 0
Skip ==
    /\ pc = "for"
    /\ \E key \in events :
          /\ ~(fileno(key[1]) > 0)
          /\ events' = events \ {key}
          /\ pc' = after(FALSE, events')
    /\ UNCHANGED <<done, call, policyVars, sockVars, envVars, histVars>>
    /\ UNCHANGED lrtVars

\* the server of the pair a socket belongs to (from the history of add)
serverOf(s) ==
    IF \E p \in pairs : s \in {p[1], p[2]}
    THEN (CHOOSE p \in pairs : s \in {p[1], p[2]})[3]
    ELSE "none"

\* accept(sock, mask) up to the call of upstream_sock.connect inside
\* mapper.add(client, policy.select_server()).  accepted: sock.accept() returns a
\* connection.  The argument policy.select_server() is evaluated before add
\* runs; add makes the client non-blocking and registers it, creates the
\* upstream socket and calls connect on it while it is still in blocking mode
\* (setblocking(False) is the line after): the handler waits inside connect.
\* On an empty server list select_server raises (servers[0], min of nothing);
\* the accepted client socket is referenced by nothing and is never registered.
Accept ==
    /\ pc = "for"
    /\ \E key \in events, accepted \in BOOLEAN :
          /\ fileno(key[1]) > 0
          /\ key[2] = "accept"
          /\ accepted => backlog > 0
          /\ events' = events \ {key}
          /\ IF ~accepted
             THEN /\ pc' = "crashed"
                  /\ raised' = [in |-> "accept", sock |-> key[1]]
                  /\ UNCHANGED <<policyVars, sockVars, backlog, selections, selLog, call>>
             ELSE IF servers = <<>>
             THEN /\ backlog' = backlog - 1
                  /\ nextSock' = nextSock + 2
                  /\ pc' = "crashed"
                  /\ raised' = [in |-> "select_server", sock |-> key[1]]
                  /\ UNCHANGED <<policyVars, sel, open, map, selections, selLog, call>>
             ELSE LET client == nextSock
                      upstream_sock == nextSock + 1
                      r == select_server
                  IN /\ backlog' = backlog - 1
                     /\ nextSock' = nextSock + 2
                     /\ index' = r.index
                     /\ connections' = r.connections
                     /\ selections' = [selections EXCEPT ![r.server] = @ + 1]
                     /\ selLog' = Append(selLog, r.server)
                     /\ sel' = register(sel, client, "read")
                     /\ open' = open \cup {client}
                     /\ call' = <<client, upstream_sock, r.server>>
                     /\ pc' = "connect"
                     /\ UNCHANGED <<servers, policyName, map, raised>>
    /\ UNCHANGED <<done, inbuf, remote, arrived, written, resets, pairs,
                   readlog, sendArgs, delivered, updates, teardowns>>
    /\ UNCHANGED lrtVars

\* upstream_sock.connect returns, or raises, and add and accept run to their end.
\* A blocking connect returns when the upstream answers (accepting or refusing)
\* or when the kernel gives up on it.
ConnectReturn ==
    /\ pc = "connect"
    /\ \E connected \in BOOLEAN :
          LET st == mapper_add(sel, open, map, call[1], call[2], connected)
          IN /\ sel' = st.sel
             /\ open' = st.open
             /\ map' = st.map
             /\ pairs' = IF connected THEN pairs \cup {call} ELSE pairs
             /\ pc' = after(st.raised, events)
             /\ raised' = IF st.raised THEN [in |-> "connect", sock |-> call[1]]
                           ELSE raised
    /\ call' = <<>>
    /\ UNCHANGED <<done, events, nextSock, policyVars, envVars,
                   readlog, sendArgs, delivered, selections, selLog, updates, teardowns>>
    /\ UNCHANGED lrtVars

\* close(): the kernel drops what a closed socket had not yet received
dropped(buf, s_open) == [s \in SockIds |-> IF s \in s_open THEN buf[s] ELSE <<>>]
gone(rem, s_open) == [s \in SockIds |-> IF s \in s_open THEN rem[s] ELSE "closed"]

\* conn.recv(4096): what it returns, or that it raises
recv(conn) ==
    IF remote[conn] = "reset" THEN [raised |-> TRUE, data |-> <<>>]
    ELSE IF inbuf[conn] # <<>>
    THEN [raised |-> FALSE, data |-> SubSeq(inbuf[conn], 1, Min(Len(inbuf[conn]), RecvSize))]
    ELSE IF remote[conn] = "eof" THEN [raised |-> FALSE, data |-> <<>>]
    ELSE [raised |-> TRUE, data |-> <<>>]

\* read(conn, mask).  sent: the number of bytes send accepts, 0 when it raises.
Read ==
    /\ pc = "for"
    /\ \E key \in events :
          LET conn == key[1]
              got == recv(conn)
              data == got.data
          IN /\ fileno(conn) > 0
             /\ key[2] = "read"
             /\ events' = events \ {key}
             /\ IF got.raised
                THEN /\ pc' = "crashed"
                     /\ raised' = [in |-> "recv", sock |-> conn]
                     /\ UNCHANGED <<sockVars, inbuf, remote, readlog, sendArgs, delivered,
                                    teardowns>>
                ELSE IF Len(data) = 0
                THEN LET st == mapper_delete(sel, open, map, conn)
                     IN /\ sel' = st.sel
                        /\ open' = st.open
                        /\ map' = st.map
                        /\ teardowns' = IF ~st.raised /\ serverOf(conn) \in AllServers
                                        THEN [teardowns EXCEPT ![serverOf(conn)] = @ + 1]
                                        ELSE teardowns
                        /\ inbuf' = dropped(inbuf, st.open)
                        /\ remote' = gone(remote, st.open)
                        /\ pc' = after(st.raised, events')
                        /\ raised' = IF st.raised THEN [in |-> "delete", sock |-> conn]
                                      ELSE raised
                        /\ UNCHANGED <<nextSock, readlog, sendArgs, delivered>>
                ELSE LET peer == get_sock(map, conn)
                     IN /\ inbuf' = [inbuf EXCEPT ![conn] = SubSeq(@, Len(data) + 1, Len(@))]
                        /\ readlog' = [readlog EXCEPT ![conn] = Append(@, data)]
                        /\ IF peer = None
                           THEN /\ pc' = "crashed"
                                /\ raised' = [in |-> "get_sock", sock |-> conn]
                                /\ UNCHANGED <<sendArgs, delivered>>
                           ELSE \E sent \in 0..Len(data) :
                                   /\ sendArgs' = [sendArgs EXCEPT ![peer] = Append(@, data)]
                                   /\ delivered' = [delivered EXCEPT ![peer] = @ \o SubSeq(data, 1, sent)]
                                   /\ pc' = after(sent = 0, events')
                                   /\ raised' = IF sent = 0 THEN [in |-> "send", sock |-> peer]
                                                 ELSE raised
                        /\ UNCHANGED <<sockVars, remote, teardowns>>
    /\ UNCHANGED <<done, call, policyVars, backlog, arrived, written, resets,
                   pairs, selections, selLog, updates>>
    /\ UNCHANGED lrtVars

Next ==
    \/ Signal
    \/ ClientConnect
    \/ PeerSend
    \/ PeerClose
    \/ PeerReset
    \/ CheckFlag
    \/ Select
    \/ Skip
    \/ Accept
    \/ ConnectReturn
    \/ Read

Spec == Init /\ [][Next]_vars

\* The loop itself always takes its next step: the flag check and the dispatch
\* of a key are straight-line code, select returns after its timeout of 1 s at
\* the latest, and every call a handler makes returns or raises (the blocking
\* connect at the latest when the kernel's connection timeout expires).
LoopStep == CheckFlag \/ Select \/ Skip \/ Accept \/ ConnectReturn \/ Read

\* No policy takes part in the loop's control flow; the fair specification runs
\* the balancer with LeastConnections, the one policy that keeps counters.
InitFair == Init /\ policyName = "LeastConnections"

FairSpec == InitFair /\ [][Next]_vars /\ WF_vars(LoopStep)

\* ------------------------------------------------- the policy object alone
\* A policy object used directly, main() not running: any sequence of
\* select_server() and update(server) calls.
InitPolicy == servers \in PolicyServerLists /\ Fresh /\ pc = "idle"

callsMade(f) == f["S1"] + f["S2"]

PolicySelect ==
    /\ callsMade(selections) < MaxCalls
    /\ LET r == select_server
       IN /\ index' = r.index
          /\ connections' = r.connections
          /\ selections' = [selections EXCEPT ![r.server] = @ + 1]
          /\ selLog' = Append(selLog, r.server)
    /\ UNCHANGED <<servers, policyName, loopVars, sockVars, envVars, pairs, readlog,
                   sendArgs, delivered, updates, teardowns, raised>>
    /\ UNCHANGED lrtVars

PolicyUpdate ==
    /\ callsMade(updates) < MaxCalls
    /\ \E server \in Range(servers) :
          /\ connections' = policy_update(server)
          /\ updates' = [updates EXCEPT ![server] = @ + 1]
    /\ UNCHANGED <<servers, policyName, index, loopVars, sockVars, envVars, pairs,
                   readlog, sendArgs, delivered, selections, selLog, teardowns, raised>>
    /\ UNCHANGED lrtVars

NextPolicy == PolicySelect \/ PolicyUpdate

SpecPolicy == InitPolicy /\ [][NextPolicy]_vars

\* ------------------------------------------------------ the command line
\* the ports that follow -s on the command line: none, or some
ServerArgs == {<<>>, <<"S1", "S2">>}

\* the module is loaded and the command line is about to be parsed
InitCli ==
    /\ servers = <<>>
    /\ policyName \in PolicyNames
    /\ Loaded
    /\ sel = <<>>
    /\ open = {}
    /\ pc = "start"

\* a start that takes whatever follows -s as the server list
Startup_unchecked ==
    /\ pc = "start"
    /\ \E given \in BOOLEAN, arg \in ServerArgs :
          /\ servers' = IF given THEN arg ELSE <<>>
          /\ response_times' = [s \in Range(servers') |->
                                   [timestamps |-> <<0>>, avg |-> <<0, 1>>, num_requests |-> 0]]
          /\ sel' = [x \in {LSock} |-> "accept"]
          /\ open' = {LSock}
          /\ pc' = "while"
          /\ raised' = raised
    /\ UNCHANGED <<policyName, index, connections, done, call, events, map, nextSock,
                   envVars, pairs, readlog, sendArgs, delivered, selections, selLog,
                   updates, teardowns, now, inflight, deltas, measured, alternating>>

\* parse_args, the list of servers, and main up to its loop.  given: -s is on
\* the command line.  -s takes one or
\* more ports (nargs='+'): without a port parse_args ends the program; without
\* -s args.servers is None and the iteration over it raises.  Nothing of that
\* is caught: the program ends before main is called.
Startup ==
    /\ pc = "start"
    /\ \E given \in BOOLEAN, arg \in ServerArgs :
          IF ~given \/ arg = <<>>
          THEN /\ pc' = "rejected"
               /\ raised' = [in |-> IF given THEN "parse_args" ELSE "servers",
                              sock |-> None]
               /\ UNCHANGED <<servers, response_times, sel, open>>
          ELSE /\ servers' = arg
               /\ response_times' = [s \in Range(arg) |->
                                        [timestamps |-> <<0>>, avg |-> <<0, 1>>, num_requests |-> 0]]
               /\ sel' = [x \in {LSock} |-> "accept"]
               /\ open' = {LSock}
               /\ pc' = "while"
               /\ raised' = raised
    /\ UNCHANGED <<policyName, index, connections, done, call, events, map, nextSock,
                   envVars, pairs, readlog, sendArgs, delivered, selections, selLog,
                   updates, teardowns, now, inflight, deltas, measured, alternating>>

NextCli == Startup \/ Next

SpecCli == InitCli /\ [][NextCli]_vars

\* ------------------------------------------------ the SocketMapper object
\* A SocketMapper on its own: add is called with a new client socket, and its
\* connect succeeds or raises; delete is called on either socket of a pair.
AddCall ==
    /\ nextSock < 2 * MaxAdds
    /\ \E connected \in BOOLEAN :
          LET st == mapper_add(sel, open, map, nextSock, nextSock + 1, connected)
          IN /\ sel' = st.sel
             /\ open' = st.open
             /\ map' = st.map
    /\ nextSock' = nextSock + 2
    /\ UNCHANGED <<policyVars, loopVars, envVars, histVars, lrtVars>>

DeleteCall ==
    /\ \E sock \in DOMAIN sel :
          /\ get_sock(map, sock) # None
          /\ LET st == mapper_delete(sel, open, map, sock)
             IN /\ sel' = st.sel
                /\ open' = st.open
                /\ map' = st.map
    /\ UNCHANGED <<policyVars, loopVars, envVars, histVars, lrtVars, nextSock>>

NextMapper == AddCall \/ DeleteCall

SpecMapper == InitPolicy /\ [][NextMapper]_vars

\* ------------------------------------------- the LeastResponseTime object
\* A LeastResponseTime object on its own: select_server() and update(server)
\* are called as time passes; update is called for a server that has a request
\* in flight, some time after that request was selected.
InitLRT ==
    /\ servers \in PolicyServerLists
    /\ policyName = "LeastResponseTime"
    /\ Built
    /\ pc = "idle"

Tick ==
    /\ now < MaxTime
    /\ now' = now + 1
    /\ UNCHANGED <<policyVars, loopVars, sockVars, envVars, histVars, response_times,
                   inflight, deltas, measured, alternating>>

LRTSelect ==
    /\ Len(selLog) < MaxLrtCalls
    /\ LET r == LeastResponseTime_select_server(servers, response_times, now)
       IN /\ response_times' = r.response_times
          /\ selections' = [selections EXCEPT ![r.server] = @ + 1]
          /\ selLog' = Append(selLog, r.server)
          /\ inflight' = [inflight EXCEPT ![r.server] = Append(@, now)]
          /\ alternating' = [alternating EXCEPT
                                ![r.server] = @ /\ inflight[r.server] = <<>>]
    /\ UNCHANGED <<policyVars, loopVars, sockVars, envVars, pairs, readlog, sendArgs,
                   delivered, updates, teardowns, raised, now, deltas, measured>>

LRTUpdate ==
    /\ \E server \in Range(servers) :
          /\ inflight[server] # <<>>
          /\ now > Head(inflight[server])
          /\ response_times' = LeastResponseTime_update(response_times, server, now)
          /\ updates' = [updates EXCEPT ![server] = @ + 1]
          /\ inflight' = [inflight EXCEPT ![server] = Tail(@)]
          /\ deltas' = [deltas EXCEPT ![server] = Append(@, now - Head(inflight[server]))]
          /\ measured' = [measured EXCEPT
                             ![server] = Append(@, update_delta(response_times, server, now))]
    /\ UNCHANGED <<policyVars, loopVars, sockVars, envVars, pairs, readlog, sendArgs,
                   delivered, selections, selLog, teardowns, raised, now, alternating>>

NextLRT == Tick \/ LRTSelect \/ LRTUpdate

SpecLRT == InitLRT /\ [][NextLRT]_vars

\* ================================================================== claims
\* no callback is part-way through: the loop is between two handler invocations
betweenHandlers == pc # "connect"

registered(s) == s \in DOMAIN sel
live(s) == s \in open /\ registered(s)

\* the relay handler is dispatched on s, a socket of a registered pair, and
\* recv returns no bytes
ZeroReadOn(s) ==
    /\ pc = "for"
    /\ <<s, "read">> \in events
    /\ <<s, "read">> \notin events'
    /\ s \in open
    /\ ~recv(s).raised
    /\ recv(s).data = <<>>
    /\ get_sock(map, s) # None

\* C1: a zero-length read on either socket of a registered pair leaves, when the
\* handler returns, both sockets unregistered and closed and the pair out of the
\* registry; and in no state between handlers is exactly one side of a pair
\* closed or unregistered.
C1_TeardownAtomic ==
    /\ [][\A s \in SockIds :
            ZeroReadOn(s) =>
                LET peer == get_sock(map, s)
                IN /\ {s, peer} \cap open' = {}
                   /\ {s, peer} \cap DOMAIN sel' = {}
                   /\ get_sock(map', s) = None
                   /\ get_sock(map', peer) = None]_vars
    /\ [](\A p \in pairs :
            /\ p[1] \in open <=> p[2] \in open
            /\ registered(p[1]) <=> registered(p[2])
            /\ p[1] \in open <=> registered(p[1])
            /\ p[1] \in open <=> get_sock(map, p[1]) = p[2])

\* a pair was torn down after a zero-length read
C1_Witness ==
    \E p \in pairs :
        /\ teardowns[p[3]] = 1
        /\ p[1] \notin open /\ p[2] \notin open
        /\ ~registered(p[1]) /\ ~registered(p[2])
        /\ get_sock(map, p[1]) = None

\* C2: every teardown after a zero-length read comes with exactly one
\* policy.update call for the pair's server.
C2_OneUpdatePerTeardown ==
    \A s \in AllServers : updates[s] = teardowns[s]

\* registered pairs whose upstream is server s
pairsOn(s) == {i \in DOMAIN map : serverOf(map[i][1]) = s}

\* C3: under LeastConnections, while the balancer runs, between handlers, each server's counter
\* is the number of registered pairs whose upstream is that server.
C3_CounterIsPairCount ==
    (policyName = "LeastConnections" /\ running /\ betweenHandlers) =>
        \A s \in AllServers : connections[s] = Cardinality(pairsOn(s))

\* C4: for every sequence of select_server() and update(server) calls on a
\* LeastConnections object, each counter is selections minus updates and is
\* never negative.
C4_CounterIsSelMinusUpd ==
    policyName = "LeastConnections" =>
        \A s \in AllServers :
            /\ connections[s] = selections[s] - updates[s]
            /\ connections[s] >= 0

\* C5: a pair is in the registry iff both its sockets are open and registered,
\* and no socket but the listening one is registered without a registry pair.
C5_RegistryIffLive ==
    betweenHandlers =>
    /\ \A i \in DOMAIN map : live(map[i][1]) /\ live(map[i][2])
    /\ \A p \in pairs : (live(p[1]) /\ live(p[2])) => get_sock(map, p[1]) = p[2]
    /\ \A s \in DOMAIN sel : s # LSock => get_sock(map, s) # None

\* C6: when accept() or the connect to the upstream fails in the accept
\* handler, the loop keeps running with the listening socket registered.
C6_LoopSurvivesAcceptFailure ==
    raised.in \in {"accept", "connect"} => (running /\ live(LSock))

\* C7: when the connect fails in add, the client socket ends closed, not
\* registered, and without a registry entry.
C7_NoHalfPair ==
    raised.in = "connect" =>
        /\ raised.sock \notin open
        /\ ~registered(raised.sock)
        /\ get_sock(map, raised.sock) = None

\* C8: when recv or send raises on a socket of an active pair, the pair is
\* torn down and the loop keeps running.
C8_RelayErrorTearsDown ==
    raised.in \in {"recv", "send"} =>
        /\ running
        /\ raised.sock \notin open
        /\ ~registered(raised.sock)
        /\ get_sock(map, raised.sock) = None

\* d is made of a leading part of each chunk, in order
RECURSIVE PrefixOfEach(_, _)
PrefixOfEach(d, chunks) ==
    IF chunks = <<>> THEN d = <<>>
    ELSE \E n \in 0..Min(Len(d), Len(Head(chunks))) :
            /\ SubSeq(d, 1, n) = SubSeq(Head(chunks), 1, n)
            /\ PrefixOfEach(SubSeq(d, n + 1, Len(d)), Tail(chunks))

paired(s) == \E p \in pairs : s \in {p[1], p[2]}

stopped == pc \in {"exited", "crashed"}

\* C10: once done is set, a flag check never starts another poll but exits;
\* the loop leaves by the flag only between batches, so the batch being
\* dispatched is finished first (unless a handler raises); and the loop
\* eventually stops after a shutdown request, ready sockets or not.
C10_CooperativeShutdown ==
    /\ [][(done /\ pc = "while") => pc' \in {"while", "exited"}]_vars
    /\ [][(pc # "exited" /\ pc' = "exited") => (done /\ pc = "while" /\ events = {})]_vars
    /\ [][(done /\ pc \in {"for", "connect"}) =>
            pc' \in {"for", "connect", "while", "crashed"}]_vars
    /\ (done ~> stopped)

\* the loop has left by its flag check, with a pair still registered
C10_Witness ==
    /\ done
    /\ pc = "exited"
    /\ map # <<>>

\* C11: no handler invocation waits on a peer: every call a handler makes on a
\* socket returns at once, the connect to the upstream included, so the loop is
\* never held inside a callback by a stalled client or upstream.
C11_NoHandlerWaitsOnPeer ==
    pc # "connect"

\* C12: with a server list of length N, the k-th select_server() of a RoundRobin
\* object returns the server at list position (k-1) mod N and leaves the cursor
\* at k mod N, so any N consecutive calls return every server once, in list
\* order from the cursor, wrapping around; with [S1, S2] the first three
\* selections are S1, S2, S1.
C12_RoundRobinCycle ==
    policyName = "RoundRobin" =>
        LET N == Len(servers)
        IN /\ index = Len(selLog) % N
           /\ \A k \in DOMAIN selLog : selLog[k] = servers[((k - 1) % N) + 1]
           /\ \A k \in DOMAIN selLog :
                 k + N - 1 <= Len(selLog) =>
                    /\ {selLog[k + j] : j \in 0..(N - 1)} = Range(servers)
                    /\ \A j \in 0..(N - 1) :
                          selLog[k + j] = servers[((((k - 1) % N) + j) % N) + 1]
           /\ (servers = <<"S1", "S2">> /\ Len(selLog) >= 3) =>
                 SubSeq(selLog, 1, 3) = <<"S1", "S2", "S1">>

\* three selections were made on [S1, S2]: S1, S2, S1
C12_Witness ==
    /\ policyName = "RoundRobin"
    /\ servers = <<"S1", "S2">>
    /\ selLog = <<"S1", "S2", "S1">>
    /\ index = 1

\* position of server s in the configured list
posOf(s) == CHOOSE i \in DOMAIN servers : servers[i] = s

\* [S1, S2], no update so far: the selections start S1, S2 and after the second
\* one both counters are 1
LC_TwoSelections ==
    (servers = <<"S1", "S2">> /\ callsMade(updates) = 0) =>
        /\ Len(selLog) >= 1 => selLog[1] = "S1"
        /\ Len(selLog) >= 2 => selLog[2] = "S2"
        /\ Len(selLog) = 2 => (connections["S1"] = 1 /\ connections["S2"] = 1)

\* C19: every LeastConnections.select_server() returns a server whose counter is
\* minimal, the earliest such server of the list, adds one to that counter and
\* leaves the other counters alone; on [S1, S2] without closes the first two
\* selections are S1 then S2 and the counters are 1 and 1.
C19_LeastConnectionsSelect ==
    [][(policyName = "LeastConnections" /\ selLog' # selLog) =>
          LET s == selLog'[Len(selLog')]
          IN /\ Len(selLog') = Len(selLog) + 1
             /\ s \in Range(servers)
             /\ \A t \in Range(servers) : connections[s] <= connections[t]
             /\ \A j \in 1..(posOf(s) - 1) : connections[servers[j]] > connections[s]
             /\ connections' = [connections EXCEPT ![s] = connections[s] + 1]
             /\ LC_TwoSelections']_vars

\* two selections on [S1, S2] with no update: S1, S2, counters 1 and 1
C19_Witness ==
    /\ policyName = "LeastConnections"
    /\ servers = <<"S1", "S2">>
    /\ callsMade(updates) = 0
    /\ selLog = <<"S1", "S2">>
    /\ connections["S1"] = 1 /\ connections["S2"] = 1

RECURSIVE Sum(_)
Sum(seq) == IF seq = <<>> THEN 0 ELSE Head(seq) + Sum(Tail(seq))

\* C13: when the calls on a server were k >= 1 select_server() -> update(server)
\* pairs taking d1..dk, the server's average is (d1 + ... + dk) / k and its
\* request count is k.
C13_AverageIsMean ==
    \A s \in Range(servers) :
        (policyName = "LeastResponseTime" /\ alternating[s] /\ inflight[s] = <<>>
            /\ Len(deltas[s]) >= 1) =>
            /\ response_times[s].avg = fraction(Sum(deltas[s]), Len(deltas[s]))
            /\ response_times[s].num_requests = Len(deltas[s])

\* all but the last slot of a window
Front(seq) == SubSeq(seq, 1, Len(seq) - 1)

\* C17: every update(server) measured the time since the start of that server's
\* oldest request in flight, and the window of each server holds, before the slot
\* the next selection will stamp, the start time of each request of that server
\* still in flight and nothing else.
C17_WindowIsInFlight ==
    policyName = "LeastResponseTime" =>
        \A s \in Range(servers) :
            /\ measured[s] = deltas[s]
            /\ Front(response_times[s].timestamps) = inflight[s]

\* C18: select_server() returns a server of the least average, and one with the
\* fewest requests in flight among the servers of that average.
C18_LeastAverageThenFewestInFlight ==
    [][(policyName = "LeastResponseTime" /\ selLog' # selLog) =>
          LET s == selLog'[Len(selLog')]
          IN /\ s \in Range(servers)
             /\ \A u \in Range(servers) :
                   /\ ~less(response_times[u].avg, response_times[s].avg)
                   /\ response_times[u].avg = response_times[s].avg
                         => Len(inflight[s]) <= Len(inflight[u])]_vars

\* the sockets a step unregisters
unregistered == (DOMAIN sel) \ (DOMAIN sel')

\* C14: right after add(client, upstream) the two sockets resolve to each other;
\* after delete on either socket of a pair both resolve to None; and the lookups
\* of the sockets of every other pair are what they were.
C14_RegistryRoundTrip ==
    [][/\ Len(map') > Len(map) =>
             \E client \in DOMAIN sel' :
                /\ client + 1 \in (DOMAIN sel') \ (DOMAIN sel)
                /\ get_sock(map, client) = None
                /\ get_sock(map', client) = client + 1
                /\ get_sock(map', client + 1) = client
       /\ \A s \in unregistered :
             get_sock(map, s) # None =>
                /\ get_sock(map', s) = None
                /\ get_sock(map', get_sock(map, s)) = None
                /\ get_sock(map, s) \in unregistered
       /\ \A s \in (DOMAIN sel) \cap (DOMAIN sel') :
             get_sock(map, s) # None => get_sock(map', s) = get_sock(map, s)]_vars

\* the first pair was added and deleted, the second pair is still registered
C14_Witness ==
    /\ pc = "idle"
    /\ nextSock = 5
    /\ 1 \notin DOMAIN sel
    /\ get_sock(map, 1) = None /\ get_sock(map, 2) = None
    /\ get_sock(map, 3) = 4 /\ get_sock(map, 4) = 3

\* C15: the key of a socket closed earlier in the batch is passed over without a
\* handler running (nothing but the batch and the loop position changes, and
\* nothing raises); a step closes and unregisters only sockets that were open
\* and registered; a delete that raises was not a second delete of a pair; and
\* a pair that left the registry never comes back, so it is deleted once.
C15_NoDoubleDelete ==
    [][/\ \A key \in events \ events' :
             key[1] \notin open =>
                /\ pc' \in {"for", "while"}
                /\ UNCHANGED <<policyVars, sockVars, envVars, histVars, done>>
       /\ \A s \in unregistered \cup (open \ open') : s \in open /\ s \in DOMAIN sel
       /\ (raised'.in = "delete" /\ raised.in # "delete") =>
             /\ raised'.sock \in open
             /\ get_sock(map, raised'.sock) = None
       /\ \A p \in pairs :
             <<p[1], p[2]>> \notin Range(map) => <<p[1], p[2]>> \notin Range(map')]_vars

\* a handler of this batch tore a pair down while the key of its other socket,
\* now closed, is still to be dispatched
C15_Witness ==
    /\ pc = "for"
    /\ \E p \in pairs, key \in events :
          /\ key[1] \in {p[1], p[2]}
          /\ {p[1], p[2]} \cap open = {}
          /\ get_sock(map, p[1]) = None

\* C20: the step that sets done, and the step by which the loop leaves on its
\* flag check, change no socket, no registration, no registry pair and no
\* policy state; when the loop has left, every pair of the registry is open and
\* registered, and so is the listening socket.
C20_ShutdownChangesOnlyDone ==
    [][/\ done' # done =>
             /\ done'
             /\ UNCHANGED <<pc, call, events, policyVars, sockVars, envVars, histVars>>
       /\ (pc' = "exited" /\ pc # "exited") =>
             /\ done
             /\ UNCHANGED <<done, call, events, policyVars, sockVars, envVars, histVars>>
             /\ live(LSock)
             /\ \A i \in DOMAIN map : live(map[i][1]) /\ live(map[i][2])
       /\ pc = "exited" => UNCHANGED vars]_vars

\* the loop has left after a shutdown request; the pair and the listening socket
\* are open and registered and the pair's selection is still counted
C20_Witness ==
    /\ pc = "exited"
    /\ done
    /\ live(LSock)
    /\ \E p \in pairs :
          /\ live(p[1]) /\ live(p[2])
          /\ get_sock(map, p[1]) = p[2]
          /\ selections[p[3]] >= 1

\* C16: the program started without a server (no -s, or -s without a port) ends
\* at startup: the loop is never entered, no socket is created and no connection
\* is accepted; the loop only ever runs with a server list that is not empty,
\* and select_server never raises out of the accept handler.
C16_EmptyListRejectedAtStartup ==
    /\ raised.in # "select_server"
    /\ pc \notin {"start", "rejected"} => servers # <<>>
    /\ pc = "rejected" =>
          /\ servers = <<>>
          /\ open = {} /\ sel = <<>> /\ map = <<>>
          /\ nextSock = 1 /\ arrived = 0 /\ selLog = <<>>

\* the program was started without a server and has ended at startup
C16_Witness ==
    /\ pc = "rejected"
    /\ servers = <<>>
    /\ raised.in \in {"servers", "parse_args"}

====
